---------------------------- MODULE Spec2Model ----------------------------
(***************************************************************************)
(* Model of scripts/analyze-coverage.py: the LCOV report parser            *)
(* (parse_lcov), the range compression (format_line_ranges) and the        *)
(* command-line driver (main).                                             *)
(*                                                                         *)
(* Text is modelled as a sequence of tokens.  A token is an atomic chunk   *)
(* of characters ("/", "src", "a.c", a decimal digit, ...); the substring  *)
(* tests of the code ('/bin/' in filename, filter_pattern in item[0]) are  *)
(* contiguous-subsequence tests on token sequences.  A report block is a   *)
(* sequence of lines, a line being what the code's regular expressions     *)
(* can tell apart: its tag, and the captured groups.                       *)
(*                                                                         *)
(* coverage_pct is a Python float, (lh / lf) * 100.  It is modelled as the *)
(* exact rational <<100 * lh, lf>>, compared by cross-multiplication; for  *)
(* counts below 2^26 the float order and the rational order coincide.      *)
(***************************************************************************)
EXTENDS Integers, Sequences, FiniteSets, TLC

VARIABLES
    sys_argv,        \* sys.argv: <<program name, arg, arg, ...>>
    lcov_file,       \* the blocks of lcov.info, each ended by end_of_record
    pc,              \* position in main
    i,               \* main's argument index (Python, 0-based)
    filter_pattern,  \* None, or the string after --filter
    show_uncovered,  \* the --uncovered flag
    records,         \* parse_lcov: content.split('end_of_record')
    idx,             \* parse_lcov: number of records already looped over
    coverage_data,   \* parse_lcov's list, then main's sorted list
    out,             \* standard output, one entry per printed line
    line_numbers     \* the argument of a direct call of format_line_ranges

vars == <<sys_argv, lcov_file, pc, i, filter_pattern, show_uncovered,
          records, idx, coverage_data, out, line_numbers>>

-----------------------------------------------------------------------------
(* Bounds of the model *)

MaxBlocks == 2

MaxArgs == 3

MaxLine == 12

MaxBigBlocks == 21

(* Program constants *)

TopN == 20

-----------------------------------------------------------------------------
(* Text *)

Digits == <<"0", "1", "2", "3", "4", "5", "6", "7", "8", "9">>

RECURSIVE Str(_)
Str(n) ==
    IF n < 10 THEN <<Digits[n + 1]>>
    ELSE Str(n \div 10) \o <<Digits[(n % 10) + 1]>>

\* Python's  sub in s
Contains(sub, s) ==
    \E k \in 0..(Len(s) - Len(sub)) : SubSeq(s, k + 1, k + Len(sub)) = sub

\* Python's  s.split(marker, 1)[1]  for a string s that contains marker
SplitAfterFirst(s, marker) ==
    LET first == CHOOSE k \in 0..(Len(s) - Len(marker)) :
                    /\ SubSeq(s, k + 1, k + Len(marker)) = marker
                    /\ \A j \in 0..(k - 1) :
                          SubSeq(s, j + 1, j + Len(marker)) /= marker
    IN  SubSeq(s, first + Len(marker) + 1, Len(s))

BinMarker == <<"/", "bin", "/">>

SrcMarker == <<"/", "src", "/">>

ProjectMarker == <<"/", "rain-tracker-service", "/">>

-----------------------------------------------------------------------------
(* Lines of a report block.  tag "XX" is any line none of the code's regular *)
(* expressions matches (TN:, FN:, "LF:abc", "SF:" with nothing after it).    *)

SF(path) == [tag |-> "SF", path |-> path, n |-> 0, m |-> 0]

LF(n) == [tag |-> "LF", path |-> <<>>, n |-> n, m |-> 0]

LH(n) == [tag |-> "LH", path |-> <<>>, n |-> n, m |-> 0]

DA(line, hits) == [tag |-> "DA", path |-> <<>>, n |-> line, m |-> hits]

XX == [tag |-> "XX", path |-> <<>>, n |-> 0, m |-> 0]

\* re.search(r'^SF:(.+)$', record, re.MULTILINE)
SfMatch(line) == line.tag = "SF" /\ Len(line.path) > 0

\* re.search(r'^LF:(\d+)$', record, re.MULTILINE)
LfMatch(line) == line.tag = "LF"

\* re.search(r'^LH:(\d+)$', record, re.MULTILINE)
LhMatch(line) == line.tag = "LH"

\* re.findall(r'^DA:(\d+),(\d+)', record, re.MULTILINE)
DaMatch(line) == line.tag = "DA"

\* re.search: the position of the leftmost matching line, 0 when none matches
FirstSf(record) ==
    IF \E k \in 1..Len(record) : SfMatch(record[k])
    THEN CHOOSE k \in 1..Len(record) :
            SfMatch(record[k]) /\ \A j \in 1..(k - 1) : ~SfMatch(record[j])
    ELSE 0

FirstLf(record) ==
    IF \E k \in 1..Len(record) : LfMatch(record[k])
    THEN CHOOSE k \in 1..Len(record) :
            LfMatch(record[k]) /\ \A j \in 1..(k - 1) : ~LfMatch(record[j])
    ELSE 0

\* mutant: the LH search made with the LF expression
FirstLhAsLf(record) == FirstLf(record)

FirstLh(record) ==
    IF \E k \in 1..Len(record) : LhMatch(record[k])
    THEN CHOOSE k \in 1..Len(record) :
            LhMatch(record[k]) /\ \A j \in 1..(k - 1) : ~LhMatch(record[j])
    ELSE 0

\* mutant: "and" for "or"
SkipPathAnd(filename) ==
    Contains(BinMarker, filename) /\ ~Contains(SrcMarker, filename)

\* if '/bin/' in filename or not '/src/' in filename: continue
SkipPath(filename) ==
    Contains(BinMarker, filename) \/ ~Contains(SrcMarker, filename)

\* coverage_pct = (lh / lf) * 100, as the rational <<numerator, denominator>>
CoveragePct(lh, lf) == <<lh * 100, lf>>

PctLess(p, q) == p[1] * q[2] < q[1] * p[2]

PctEq(p, q) == p[1] * q[2] = q[1] * p[2]

\* the "Extract relative path" branch
RelPath(filename) ==
    IF Contains(ProjectMarker, filename)
    THEN SplitAfterFirst(filename, ProjectMarker)
    ELSE filename

\* uncovered = [int(line_num) for line_num, hits in lines if int(hits) == 0]
RECURSIVE Uncovered(_)
Uncovered(record) ==
    IF record = <<>> THEN <<>>
    ELSE LET line == Head(record)
         IN  (IF DaMatch(line) /\ line.m = 0 THEN <<line.n>> ELSE <<>>)
                \o Uncovered(Tail(record))

\* item = [relpath, coverage_pct, lh, lf], plus uncovered when include_lines;
\* len is the length of the tuple (4 or 5)
Item(filename, lh, lf, record, include_lines) ==
    [relpath      |-> RelPath(filename),
     coverage_pct |-> CoveragePct(lh, lf),
     lh           |-> lh,
     lf           |-> lf,
     uncovered    |-> IF include_lines THEN Uncovered(record) ELSE <<>>,
     len          |-> IF include_lines THEN 5 ELSE 4]

\* mutant: no  if lf == 0: continue
ParseRecordNoZeroCheck(record, include_lines) ==
    IF record = <<>> THEN <<>>
    ELSE IF FirstSf(record) = 0 THEN <<>>
    ELSE LET filename == record[FirstSf(record)].path IN
         IF SkipPath(filename) THEN <<>>
    ELSE IF FirstLf(record) = 0 \/ FirstLh(record) = 0 THEN <<>>
    ELSE LET lf == record[FirstLf(record)].n
             lh == record[FirstLh(record)].n IN
         <<Item(filename, lh, lf, record, include_lines)>>

\* One iteration of parse_lcov's loop: the items it appends (none or one)
ParseRecord(record, include_lines) ==
    IF record = <<>> THEN <<>>                      \* not record.strip()
    ELSE IF FirstSf(record) = 0 THEN <<>>
    ELSE LET filename == record[FirstSf(record)].path IN
         IF SkipPath(filename) THEN <<>>
    ELSE IF FirstLf(record) = 0 \/ FirstLh(record) = 0 THEN <<>>
    ELSE LET lf == record[FirstLf(record)].n
             lh == record[FirstLh(record)].n IN
         IF lf = 0 THEN <<>>
    ELSE <<Item(filename, lh, lf, record, include_lines)>>

\* content.split('end_of_record'): the blocks, and what follows the last
\* end_of_record (the file's final newline)
SplitRecords(content) == content \o << <<>> >>

-----------------------------------------------------------------------------
(* format_line_ranges *)

\* sorted(line_numbers): ascending, duplicates kept
RECURSIVE InsertInt(_, _)
InsertInt(x, s) ==
    IF s = <<>> THEN <<x>>
    ELSE IF x < Head(s) THEN <<x>> \o s
    ELSE <<Head(s)>> \o InsertInt(x, Tail(s))

RECURSIVE SortedInts(_)
SortedInts(s) ==
    IF s = <<>> THEN <<>>
    ELSE InsertInt(Head(s), SortedInts(Tail(s)))

\* mutant: no  if start == end
RangeTokenAlwaysRange(start, end) == Str(start) \o <<"-">> \o Str(end)

\* str(start) if start == end, else f"{start}-{end}"
RangeToken(start, end) ==
    IF start = end THEN Str(start)
    ELSE Str(start) \o <<"-">> \o Str(end)

\* the for loop over line_numbers[1:], from position k on, and the final
\* append: the list  ranges
RECURSIVE RangeLoop(_, _, _, _, _)
RangeLoop(sorted, k, start, end, ranges) ==
    IF k > Len(sorted)
    THEN Append(ranges, RangeToken(start, end))
    ELSE LET line == sorted[k] IN
         IF line = end + 1
         THEN RangeLoop(sorted, k + 1, start, line, ranges)
         ELSE RangeLoop(sorted, k + 1, line, line,
                        Append(ranges, RangeToken(start, end)))

\* ", ".join(ranges)
RECURSIVE Join(_)
Join(ranges) ==
    IF ranges = <<>> THEN <<>>
    ELSE IF Len(ranges) = 1 THEN ranges[1]
    ELSE ranges[1] \o <<",", " ">> \o Join(Tail(ranges))

FormatLineRanges(numbers) ==
    IF numbers = <<>> THEN <<"none">>
    ELSE LET sorted == SortedInts(numbers)
         IN  Join(RangeLoop(sorted, 2, sorted[1], sorted[1], <<>>))

-----------------------------------------------------------------------------
(* main *)

None == [some |-> FALSE, val |-> <<>>]

Some(v) == [some |-> TRUE, val |-> v]

\* Python's truth value of filter_pattern: neither None nor ''
Truthy(fp) == fp.some /\ fp.val /= <<>>

FilterFlag == <<"--filter">>

UncoveredFlag == <<"--uncovered">>

\* sys.argv[k], Python's 0-based index
Argv(k) == sys_argv[k + 1]

\* mutant: x goes before the items of equal key
RECURSIVE InsertItemBeforeEqual(_, _)
InsertItemBeforeEqual(x, s) ==
    IF s = <<>> THEN <<x>>
    ELSE IF ~PctLess(Head(s).coverage_pct, x.coverage_pct) THEN <<x>> \o s
    ELSE <<Head(s)>> \o InsertItemBeforeEqual(x, Tail(s))

\* coverage_data.sort(key=lambda x: x[1]): list.sort is stable and ascending.
\* Insert x behind every item whose key is not greater.
RECURSIVE InsertItem(_, _)
InsertItem(x, s) ==
    IF s = <<>> THEN <<x>>
    ELSE IF PctLess(x.coverage_pct, Head(s).coverage_pct) THEN <<x>> \o s
    ELSE <<Head(s)>> \o InsertItem(x, Tail(s))

RECURSIVE SortByPct(_)
SortByPct(s) ==
    IF s = <<>> THEN <<>>
    ELSE InsertItem(s[Len(s)], SortByPct(SubSeq(s, 1, Len(s) - 1)))

\* What main prints, one entry per line.  A record line carries the values
\* formatted into it.
Rule == [kind |-> "rule", text |-> <<>>, pct |-> <<0, 1>>, lh |-> 0, lf |-> 0]

MatchingLine(pattern) ==
    [kind |-> "matching", text |-> pattern, pct |-> <<0, 1>>, lh |-> 0, lf |-> 0]

\* f"{filepath:60} {pct:6.1f}% ({lh:4}/{lf:4})"
RecordLine(item) ==
    [kind |-> "record", text |-> item.relpath, pct |-> item.coverage_pct,
     lh |-> item.lh, lf |-> item.lf]

\* f"  Uncovered lines: {format_line_ranges(uncovered_lines)}"
UncoveredLine(item) ==
    [kind |-> "uncovered", text |-> FormatLineRanges(item.uncovered),
     pct |-> <<0, 1>>, lh |-> 0, lf |-> 0]

BlankLine == [kind |-> "blank", text |-> <<>>, pct |-> <<0, 1>>, lh |-> 0, lf |-> 0]

NoFilesLine(pattern) ==
    [kind |-> "nofiles", text |-> pattern, pct |-> <<0, 1>>, lh |-> 0, lf |-> 0]

\* print("Files with lowest coverage:\n"): the heading and an empty line
LowestLines ==
    <<[kind |-> "lowest", text |-> <<>>, pct |-> <<0, 1>>, lh |-> 0, lf |-> 0],
      BlankLine>>

\* filtered = [item for item in coverage_data if filter_pattern in item[0]]
RECURSIVE Filtered(_, _)
Filtered(data, pattern) ==
    IF data = <<>> THEN <<>>
    ELSE (IF Contains(pattern, Head(data).relpath) THEN <<Head(data)>> ELSE <<>>)
            \o Filtered(Tail(data), pattern)

\* the body of  for item in filtered
ItemLines(item, uncovered_flag) ==
    <<RecordLine(item)>>
        \o (IF uncovered_flag /\ item.len > 4
            THEN <<UncoveredLine(item), BlankLine>>
            ELSE <<>>)

RECURSIVE FilteredLines(_, _)
FilteredLines(filtered, uncovered_flag) ==
    IF filtered = <<>> THEN <<>>
    ELSE ItemLines(Head(filtered), uncovered_flag)
            \o FilteredLines(Tail(filtered), uncovered_flag)

\* mutant: the cap of the other branch, filtered[:20]
PrintFilteredLinesCapped(data, pattern, uncovered_flag) ==
    LET filtered == Filtered(data, pattern)
        capped == SubSeq(filtered, 1, IF Len(filtered) < TopN THEN Len(filtered) ELSE TopN)
    IN  <<Rule, MatchingLine(pattern), Rule>>
            \o FilteredLines(capped, uncovered_flag)
            \o (IF filtered = <<>> THEN <<NoFilesLine(pattern)>> ELSE <<>>)

\* mutant: the message is printed when nothing was parsed, not when nothing
\* matched ( if not coverage_data )
PrintFilteredLinesMessageOnEmptyData(data, pattern, uncovered_flag) ==
    LET filtered == Filtered(data, pattern)
    IN  <<Rule, MatchingLine(pattern), Rule>>
            \o FilteredLines(filtered, uncovered_flag)
            \o (IF data = <<>> THEN <<NoFilesLine(pattern)>> ELSE <<>>)

\* the  if filter_pattern:  branch
PrintFilteredLines(data, pattern, uncovered_flag) ==
    LET filtered == Filtered(data, pattern)
    IN  <<Rule, MatchingLine(pattern), Rule>>
            \o FilteredLines(filtered, uncovered_flag)
            \o (IF filtered = <<>> THEN <<NoFilesLine(pattern)>> ELSE <<>>)

\* mutant: no slice
TopSliceAll(data) == data

\* coverage_data[:20]
TopSlice(data) == SubSeq(data, 1, IF Len(data) < TopN THEN Len(data) ELSE TopN)

RECURSIVE TopLines(_)
TopLines(data) ==
    IF data = <<>> THEN <<>>
    ELSE <<RecordLine(Head(data))>> \o TopLines(Tail(data))

\* mutant: the uncovered lines printed as in the filtered branch
PrintTopLinesWithUncovered(data) ==
    LowestLines \o FilteredLines(TopSlice(data), TRUE)

\* the  else  branch
PrintTopLines(data) == LowestLines \o TopLines(TopSlice(data))

\* parse_lcov as a whole: the items of the records, in order
RECURSIVE ParseAll(_, _)
ParseAll(recs, include_lines) ==
    IF recs = <<>> THEN <<>>
    ELSE ParseRecord(Head(recs), include_lines)
            \o ParseAll(Tail(recs), include_lines)

ParseLcov(content, include_lines) ==
    ParseAll(SplitRecords(content), include_lines)

\* main run with no arguments: filter_pattern None, show_uncovered False
MainNoArgs(content) == PrintTopLines(SortByPct(ParseLcov(content, FALSE)))

-----------------------------------------------------------------------------
(* Steps of main *)

\* if sys.argv[i] == '--filter' and i + 1 < len(sys.argv)
ArgFilter ==
    /\ pc = "args"
    /\ i < Len(sys_argv)
    /\ Argv(i) = FilterFlag /\ i + 1 < Len(sys_argv)
    /\ filter_pattern' = Some(Argv(i + 1))
    /\ i' = i + 2
    /\ UNCHANGED <<sys_argv, lcov_file, pc, show_uncovered, records, idx,
                   coverage_data, out, line_numbers>>

\* elif sys.argv[i] == '--uncovered'
ArgUncovered ==
    /\ pc = "args"
    /\ i < Len(sys_argv)
    /\ ~(Argv(i) = FilterFlag /\ i + 1 < Len(sys_argv))
    /\ Argv(i) = UncoveredFlag
    /\ show_uncovered' = TRUE
    /\ i' = i + 1
    /\ UNCHANGED <<sys_argv, lcov_file, pc, filter_pattern, records, idx,
                   coverage_data, out, line_numbers>>

\* else: i += 1
ArgOther ==
    /\ pc = "args"
    /\ i < Len(sys_argv)
    /\ ~(Argv(i) = FilterFlag /\ i + 1 < Len(sys_argv))
    /\ Argv(i) /= UncoveredFlag
    /\ i' = i + 1
    /\ UNCHANGED <<sys_argv, lcov_file, pc, filter_pattern, show_uncovered,
                   records, idx, coverage_data, out, line_numbers>>

\* the while loop ends; parse_lcov opens and reads the file and splits it
ReadFile ==
    /\ pc = "args"
    /\ ~(i < Len(sys_argv))
    /\ records' = SplitRecords(lcov_file)
    /\ idx' = 0
    /\ coverage_data' = <<>>
    /\ pc' = "parse"
    /\ UNCHANGED <<sys_argv, lcov_file, i, filter_pattern, show_uncovered, out,
                   line_numbers>>

\* one iteration of  for record in records
ParseStep ==
    /\ pc = "parse"
    /\ idx < Len(records)
    /\ coverage_data' =
          coverage_data \o ParseRecord(records[idx + 1], show_uncovered)
    /\ idx' = idx + 1
    /\ UNCHANGED <<sys_argv, lcov_file, pc, i, filter_pattern, show_uncovered,
                   records, out, line_numbers>>

\* parse_lcov returns; coverage_data.sort(key=lambda x: x[1])
Sort ==
    /\ pc = "parse"
    /\ idx = Len(records)
    /\ coverage_data' = SortByPct(coverage_data)
    /\ pc' = "print"
    /\ UNCHANGED <<sys_argv, lcov_file, i, filter_pattern, show_uncovered,
                   records, idx, out, line_numbers>>

\* if filter_pattern: ...
PrintFiltered ==
    /\ pc = "print"
    /\ Truthy(filter_pattern)
    /\ out' = PrintFilteredLines(coverage_data, filter_pattern.val,
                                 show_uncovered)
    /\ pc' = "done"
    /\ UNCHANGED <<sys_argv, lcov_file, i, filter_pattern, show_uncovered,
                   records, idx, coverage_data, line_numbers>>

\* else: ...
PrintTop ==
    /\ pc = "print"
    /\ ~Truthy(filter_pattern)
    /\ out' = PrintTopLines(coverage_data)
    /\ pc' = "done"
    /\ UNCHANGED <<sys_argv, lcov_file, i, filter_pattern, show_uncovered,
                   records, idx, coverage_data, line_numbers>>

Next ==
    \/ ArgFilter
    \/ ArgUncovered
    \/ ArgOther
    \/ ReadFile
    \/ ParseStep
    \/ Sort
    \/ PrintFiltered
    \/ PrintTop

\* a call of format_line_ranges on its own
FormatCall ==
    /\ pc = "call"
    /\ out' = <<[kind |-> "ranges", text |-> FormatLineRanges(line_numbers),
                 pct |-> <<0, 1>>, lh |-> 0, lf |-> 0]>>
    /\ pc' = "returned"
    /\ UNCHANGED <<sys_argv, lcov_file, i, filter_pattern, show_uncovered,
                   records, idx, coverage_data, line_numbers>>

NextRanges == FormatCall

-----------------------------------------------------------------------------
(* Inputs *)

Root == <<"/", "x", "/", "rain-tracker-service", "/">>

PathA == Root \o <<"src", "/", "a.c">>

PathB == Root \o <<"src", "/", "b.c">>

PathUpperA == Root \o <<"src", "/", "A.c">>

PathC == <<"/", "y", "/", "src", "/", "c.c">>

PathSrcBin == Root \o <<"src", "/", "bin", "/", "tool.c">>

PathBinBeforeRoot ==
    <<"/", "bin", "/", "rain-tracker-service", "/", "lib", "/", "src", "/", "d.c">>

PathSrcBeforeRoot == <<"/", "src", "/", "rain-tracker-service", "/", "a.c">>

PathLib == Root \o <<"lib", "/", "a.c">>

PathRelative == <<"src", "/", "a.c">>

BlkA == <<XX, SF(PathA), DA(1, 0), DA(2, 3), DA(3, 0), DA(4, 0), LF(10), LH(5)>>

BlkB == <<SF(PathB), DA(7, 1), LF(4), LH(4)>>

BlkC == <<SF(PathC), DA(3, 0), DA(3, 0), DA(2, 0), LF(2), LH(1)>>

BlkOver == <<SF(PathUpperA), LF(4), LH(10), LF(0)>>

BlkSrcBin == <<SF(PathSrcBin), SF(PathA), DA(1, 0), LF(4), LH(2)>>

BlkBinBeforeRoot == <<SF(PathBinBeforeRoot), LF(4), LH(3)>>

BlkSrcBeforeRoot == <<SF(PathSrcBeforeRoot), DA(9, 0), DA(10, 0), LF(5), LH(1)>>

BlkLib == <<SF(PathLib), LF(4), LH(1)>>

BlkRelative == <<SF(PathRelative), LF(4), LH(1)>>

BlkNoSF == <<SF(<<>>), LF(3), LH(1)>>

BlkNoLF == <<SF(PathA), XX, LH(1)>>

BlkNoLH == <<SF(PathB), LF(3), DA(1, 0)>>

BlkLF0 == <<SF(PathA), LF(0), LH(0)>>

Blocks ==
    {BlkA, BlkB, BlkC, BlkOver, BlkSrcBin, BlkBinBeforeRoot, BlkSrcBeforeRoot,
     BlkLib, BlkRelative, BlkNoSF, BlkNoLF, BlkNoLH, BlkLF0}

SeqsUpTo(S, n) == UNION {[1..k -> S] : k \in 0..n}

AllReports == SeqsUpTo(Blocks, MaxBlocks)

FewReports ==
    {<<>>,
     <<BlkA, BlkB>>,
     <<BlkA, BlkNoLF, BlkC, BlkB>>,
     <<BlkC, BlkLF0, BlkA, BlkOver, BlkSrcBeforeRoot>>,
     <<BlkSrcBin, BlkLib, BlkNoSF>>}

ArgTokens == {FilterFlag, UncoveredFlag, <<>>, <<"a.c">>, <<"zzz">>}

Prog == <<"analyze-coverage.py">>

AllArgvs == {<<Prog>> \o a : a \in SeqsUpTo(ArgTokens, MaxArgs)}

FewArgvs ==
    {<<Prog>>,
     <<Prog, UncoveredFlag>>,
     <<Prog, FilterFlag, <<"a.c">> >>,
     <<Prog, UncoveredFlag, FilterFlag, <<"src", "/">> >>,
     <<Prog, FilterFlag, <<"zzz">>, UncoveredFlag>>}

\* A long report: n blocks, block j for file f<j> with LF 5 and LH
\* (j * step) % 6; with step 3 every fourth block has no LH field
BigBlock(j, step) ==
    <<SF(Root \o <<"src", "/", "f">> \o Str(j)), DA(j, 0), DA(j + 1, j % 2), LF(5)>>
        \o (IF step = 3 /\ j % 4 = 0 THEN <<>> ELSE <<LH((j * step) % 6)>>)

BigReports ==
    {[j \in 1..n |-> BigBlock(j, step)] : n \in 0..MaxBigBlocks, step \in 1..3}

BigArgvs ==
    {<<Prog>>,
     <<Prog, UncoveredFlag>>,
     <<Prog, FilterFlag, <<>> >>,
     <<Prog, FilterFlag, <<"src", "/">> >>,
     <<Prog, FilterFlag, <<"1">>, UncoveredFlag>>}

Subsets == SUBSET (1..MaxLine)

RECURSIVE Ascending(_)
Ascending(S) ==
    IF S = {} THEN <<>>
    ELSE LET x == CHOOSE y \in S : \A z \in S : y <= z
         IN  <<x>> \o Ascending(S \ {x})

Reverse(s) == [k \in 1..Len(s) |-> s[Len(s) + 1 - k]]

Rotate(s) == IF s = <<>> THEN <<>> ELSE Tail(s) \o <<Head(s)>>

LineLists ==
    UNION {{Ascending(S), Reverse(Ascending(S)), Rotate(Ascending(S))} :
              S \in Subsets}

-----------------------------------------------------------------------------
(* Specifications *)

Init ==
    /\ \/ sys_argv \in AllArgvs /\ lcov_file \in FewReports
       \/ sys_argv \in FewArgvs /\ lcov_file \in AllReports
       \/ sys_argv \in BigArgvs /\ lcov_file \in BigReports
    /\ pc = "args"
    /\ i = 1
    /\ filter_pattern = None
    /\ show_uncovered = FALSE
    /\ records = <<>>
    /\ idx = 0
    /\ coverage_data = <<>>
    /\ out = <<>>
    /\ line_numbers = <<>>

Spec == Init /\ [][Next]_vars

InitRanges ==
    /\ line_numbers \in LineLists
    /\ pc = "call"
    /\ sys_argv = <<Prog>>
    /\ lcov_file = <<>>
    /\ i = 1
    /\ filter_pattern = None
    /\ show_uncovered = FALSE
    /\ records = <<>>
    /\ idx = 0
    /\ coverage_data = <<>>
    /\ out = <<>>

SpecRanges == InitRanges /\ [][NextRanges]_vars

-----------------------------------------------------------------------------
(* Vocabulary of the properties, stated on the report and on the output      *)
(* without the parser's own operators.                                       *)

IsSFLine(line) == line.tag = "SF" /\ line.path /= <<>>

IsLFLine(line) == line.tag = "LF"

IsLHLine(line) == line.tag = "LH"

HasSubstring(s, sub) ==
    \E a \in 0..Len(s) : \E b \in a..Len(s) : SubSeq(s, a + 1, b) = sub

HasSF(block) == SelectSeq(block, IsSFLine) /= <<>>

RawPath(block) == Head(SelectSeq(block, IsSFLine)).path

PathAllowed(path) ==
    HasSubstring(path, <<"/", "src", "/">>) /\ ~HasSubstring(path, <<"/", "bin", "/">>)

HasCounts(block) ==
    SelectSeq(block, IsLFLine) /= <<>> /\ SelectSeq(block, IsLHLine) /= <<>>

BlockLF(block) == Head(SelectSeq(block, IsLFLine)).n

BlockLH(block) == Head(SelectSeq(block, IsLHLine)).n

\* a block that yields a record
Reported(block) ==
    /\ HasSF(block)
    /\ PathAllowed(RawPath(block))
    /\ HasCounts(block)
    /\ BlockLF(block) > 0

\* the lines L of a block with a DA:L,0 entry
ZeroHitLines(block) ==
    {block[k].n : k \in {j \in 1..Len(block) : block[j].tag = "DA" /\ block[j].m = 0}}

IsRecordLine(line) == line.kind = "record"

RecordLines(lines) == SelectSeq(lines, IsRecordLine)

LineOf(item) ==
    [kind |-> "record", text |-> item.relpath, pct |-> item.coverage_pct,
     lh |-> item.lh, lf |-> item.lf]

LinesOf(items) == [k \in 1..Len(items) |-> LineOf(items[k])]

Args == SubSeq(sys_argv, 2, Len(sys_argv))

ArgGiven(flag) == \E k \in 1..Len(Args) : Args[k] = flag

ParseDone == pc = "parse" /\ idx = Len(records)

\* the blocks the loop has been over
BlocksSeen ==
    SubSeq(lcov_file, 1, IF idx < Len(lcov_file) THEN idx ELSE Len(lcov_file))

-----------------------------------------------------------------------------
(* Reading a rendered range list back *)

IsDigit(c) == \E d \in 1..10 : Digits[d] = c

DigitVal(c) == (CHOOSE d \in 1..10 : Digits[d] = c) - 1

RECURSIVE NumVal(_)
NumVal(ds) ==
    IF ds = <<>> THEN 0
    ELSE NumVal(SubSeq(ds, 1, Len(ds) - 1)) * 10 + DigitVal(ds[Len(ds)])

IsNumber(ds) ==
    /\ ds /= <<>>
    /\ \A k \in 1..Len(ds) : IsDigit(ds[k])
    /\ (Len(ds) > 1 => ds[1] /= "0")

Positions(text, c) == {k \in 1..Len(text) : text[k] = c}

FirstPos(text, c) == CHOOSE k \in Positions(text, c) : \A j \in Positions(text, c) : k <= j

\* the pieces between ", " separators
RECURSIVE SplitList(_)
SplitList(text) ==
    IF Positions(text, ",") = {} THEN <<text>>
    ELSE LET k == FirstPos(text, ",")
         IN  <<SubSeq(text, 1, k - 1)>> \o SplitList(SubSeq(text, k + 2, Len(text)))

SeparatorsOk(text) ==
    \A k \in Positions(text, ",") : k < Len(text) /\ text[k + 1] = " "

\* a piece is  n  or  start-end
PieceOk(piece) ==
    IF Positions(piece, "-") = {} THEN IsNumber(piece)
    ELSE LET k == FirstPos(piece, "-")
         IN  /\ IsNumber(SubSeq(piece, 1, k - 1))
             /\ IsNumber(SubSeq(piece, k + 1, Len(piece)))

PieceLo(piece) ==
    IF Positions(piece, "-") = {} THEN NumVal(piece)
    ELSE NumVal(SubSeq(piece, 1, FirstPos(piece, "-") - 1))

PieceHi(piece) ==
    IF Positions(piece, "-") = {} THEN NumVal(piece)
    ELSE NumVal(SubSeq(piece, FirstPos(piece, "-") + 1, Len(piece)))

PieceIsRange(piece) == Positions(piece, "-") /= {}

RangeListOk(text) ==
    /\ SeparatorsOk(text)
    /\ \A k \in 1..Len(SplitList(text)) : PieceOk(SplitList(text)[k])

Expanded(text) ==
    UNION {PieceLo(SplitList(text)[k])..PieceHi(SplitList(text)[k]) :
              k \in 1..Len(SplitList(text))}

\* every piece is a run of S, a range only when longer than one line, and
\* consecutive pieces are ascending and neither overlap nor touch
MaximalRuns(text, S) ==
    LET pieces == SplitList(text) IN
    /\ \A k \in 1..Len(pieces) :
          /\ PieceLo(pieces[k]) <= PieceHi(pieces[k])
          /\ PieceIsRange(pieces[k]) => PieceLo(pieces[k]) < PieceHi(pieces[k])
          /\ PieceLo(pieces[k])..PieceHi(pieces[k]) \subseteq S
    /\ \A k \in 1..(Len(pieces) - 1) :
          PieceHi(pieces[k]) + 1 < PieceLo(pieces[k + 1])

Elements(s) == {s[k] : k \in 1..Len(s)}

IsSuffix(t, s) == Len(t) <= Len(s) /\ SubSeq(s, Len(s) - Len(t) + 1, Len(s)) = t

-----------------------------------------------------------------------------
(* Properties of parse_lcov *)

\* C1: while and after parse_lcov loops over the report, its list holds
\* exactly one record per block seen so far that has an SF path passing the
\* path rules, an LF field, an LH field and LF > 0, in the order of the
\* blocks, each with the block's LH and LF and coverage_pct = 100 * LH / LF;
\* any other block adds nothing and leaves the records around it as they are.
C1_OneRecordPerReportedBlock ==
    pc = "parse" =>
        LET good == SelectSeq(BlocksSeen, Reported) IN
        /\ Len(coverage_data) = Len(good)
        /\ \A k \in 1..Len(good) :
              /\ coverage_data[k].lh = BlockLH(good[k])
              /\ coverage_data[k].lf = BlockLF(good[k])
              /\ coverage_data[k].coverage_pct[2] /= 0
              /\ coverage_data[k].coverage_pct[1] * BlockLF(good[k])
                    = 100 * BlockLH(good[k]) * coverage_data[k].coverage_pct[2]
              /\ IsSuffix(coverage_data[k].relpath, RawPath(good[k]))

\* a report with a block that is not reported between two that are, parsed
C1_Witness ==
    /\ ParseDone
    /\ Len(coverage_data) >= 2
    /\ \E k \in 2..(Len(lcov_file) - 1) :
          /\ ~Reported(lcov_file[k])
          /\ Reported(lcov_file[k - 1])
          /\ Reported(lcov_file[k + 1])

\* C2: a block whose raw SF path contains /bin/ or does not contain /src/
\* adds no record, whatever its LF, LH and DA fields (also when the path
\* holds both /src/ and /bin/, and whatever the path is once the project
\* root is stripped); and every record line printed, in either mode, carries
\* the path and counts of a block whose raw path passes both tests.
C2_ExcludedPathsNeverReported ==
    /\ [][(/\ pc = "parse"
           /\ idx < Len(records)
           /\ HasSF(records[idx + 1])
           /\ ~PathAllowed(RawPath(records[idx + 1])))
              => coverage_data' = coverage_data]_vars
    /\ [](pc = "done" =>
            \A k \in 1..Len(out) :
                out[k].kind = "record" =>
                    \E b \in 1..Len(lcov_file) :
                        /\ HasSF(lcov_file[b])
                        /\ PathAllowed(RawPath(lcov_file[b]))
                        /\ HasCounts(lcov_file[b])
                        /\ IsSuffix(out[k].text, RawPath(lcov_file[b]))
                        /\ out[k].lf = BlockLF(lcov_file[b])
                        /\ out[k].lh = BlockLH(lcov_file[b]))

\* the first block, with a path under /src/ and under /bin/ and with valid
\* counts, has been looped over and nothing was recorded
C2_Witness ==
    /\ pc = "parse"
    /\ idx = 1
    /\ Len(lcov_file) >= 1
    /\ HasSF(lcov_file[1])
    /\ HasSubstring(RawPath(lcov_file[1]), <<"/", "src", "/">>)
    /\ HasSubstring(RawPath(lcov_file[1]), <<"/", "bin", "/">>)
    /\ HasCounts(lcov_file[1])
    /\ BlockLF(lcov_file[1]) > 0
    /\ coverage_data = <<>>

\* C3 as stated: every record satisfies 0 <= linesHit <= linesFound
C3_HitsWithinFound ==
    \A k \in 1..Len(coverage_data) :
        /\ 0 <= coverage_data[k].lh
        /\ coverage_data[k].lh <= coverage_data[k].lf

\* C3, amended: every record satisfies linesHit >= 0 and linesFound >= 1,
\* so coveragePercent >= 0; LH is taken from the report as it is, and
\* coveragePercent <= 100 exactly when linesHit <= linesFound.
C3_CountsAsReported ==
    \A k \in 1..Len(coverage_data) :
        LET item == coverage_data[k] IN
        /\ item.lh >= 0
        /\ item.lf >= 1
        /\ item.coverage_pct[2] > 0
        /\ item.coverage_pct[1] >= 0
        /\ (item.coverage_pct[1] <= 100 * item.coverage_pct[2]) <=> (item.lh <= item.lf)

\* a record with more lines hit than found has been parsed
C3_Witness ==
    /\ ParseDone
    /\ \E k \in 1..Len(coverage_data) : coverage_data[k].lh > coverage_data[k].lf

-----------------------------------------------------------------------------
(* Properties of main *)

RECURSIVE IsSubsequence(_, _)
IsSubsequence(a, b) ==
    IF a = <<>> THEN TRUE
    ELSE IF b = <<>> THEN FALSE
    ELSE IF Head(a) = Head(b) THEN IsSubsequence(Tail(a), Tail(b))
    ELSE IsSubsequence(a, Tail(b))

Matching(items, pattern) ==
    LET Matches(item) == HasSubstring(item.relpath, pattern)
    IN  SelectSeq(items, Matches)

FirstTwenty(items) == SubSeq(items, 1, IF Len(items) < 20 THEN Len(items) ELSE 20)

FilterTaken ==
    /\ filter_pattern.some <=> \E k \in 1..(Len(Args) - 1) : Args[k] = FilterFlag
    /\ filter_pattern.some =>
          \E k \in 1..(Len(Args) - 1) :
              Args[k] = FilterFlag /\ Args[k + 1] = filter_pattern.val

\* C5 as stated: with --filter PATTERN, for every pattern, the empty one
\* included, the record lines printed are those of all the records whose
\* path contains PATTERN, in sorted order, without the cap of 20
C5_FilterPrintsAllMatching ==
    (pc = "done" /\ filter_pattern.some) =>
        RecordLines(out) = LinesOf(Matching(coverage_data, filter_pattern.val))

\* C5, amended: with --filter PATTERN and PATTERN not empty, the record
\* lines printed are those of all the records whose path contains PATTERN
\* (case-sensitive), in sorted order, without the cap of 20; an empty PATTERN
\* is no filter: the run prints the heading of the no-filter mode and the
\* first 20 records only.
C5_NonEmptyFilterPrintsAllMatching ==
    pc = "done" =>
        /\ FilterTaken
        /\ (filter_pattern.some /\ filter_pattern.val /= <<>>) =>
              RecordLines(out) = LinesOf(Matching(coverage_data, filter_pattern.val))
        /\ (filter_pattern.some /\ filter_pattern.val = <<>>) =>
              /\ out[1].kind = "lowest"
              /\ RecordLines(out) = LinesOf(FirstTwenty(coverage_data))

\* a filtered run has printed more than 20 records
C5_Witness ==
    /\ pc = "done"
    /\ filter_pattern.some
    /\ filter_pattern.val /= <<>>
    /\ Len(RecordLines(out)) > 20

NoneMatches == Matching(coverage_data, filter_pattern.val) = <<>>

\* C6 as stated: with --filter PATTERN and no record matching, the output is
\* the single "No files found" message
C6_OnlyTheMessage ==
    (pc = "done" /\ filter_pattern.some /\ NoneMatches) =>
        out = <<[kind |-> "nofiles", text |-> filter_pattern.val,
                 pct |-> <<0, 1>>, lh |-> 0, lf |-> 0]>>

\* C6, amended: with --filter PATTERN, PATTERN not empty and no record
\* matching, the output is the banner (a rule, FILES MATCHING 'PATTERN':, a
\* rule) followed by the single "No files found matching 'PATTERN'" message,
\* and nothing else; when a record matches, the message is not printed.
C6_BannerThenMessage ==
    (pc = "done" /\ filter_pattern.some /\ filter_pattern.val /= <<>>) =>
        IF NoneMatches
        THEN out = <<[kind |-> "rule", text |-> <<>>,
                      pct |-> <<0, 1>>, lh |-> 0, lf |-> 0],
                     [kind |-> "matching", text |-> filter_pattern.val,
                      pct |-> <<0, 1>>, lh |-> 0, lf |-> 0],
                     [kind |-> "rule", text |-> <<>>,
                      pct |-> <<0, 1>>, lh |-> 0, lf |-> 0],
                     [kind |-> "nofiles", text |-> filter_pattern.val,
                      pct |-> <<0, 1>>, lh |-> 0, lf |-> 0]>>
        ELSE \A k \in 1..Len(out) : out[k].kind /= "nofiles"

\* a filtered run over a report with records, none of them matching
C6_Witness ==
    /\ pc = "done"
    /\ filter_pattern.some
    /\ filter_pattern.val /= <<>>
    /\ coverage_data /= <<>>
    /\ NoneMatches
    /\ out[Len(out)].kind = "nofiles"

\* C7: in no-filter mode the record lines printed are those of the first
\* min(20, n) records of the sorted list, in its order: all of them when
\* n < 20, never more than 20.
C7_NoFilterPrintsFirstTwenty ==
    (pc = "done" /\ ~(filter_pattern.some /\ filter_pattern.val /= <<>>)) =>
        /\ RecordLines(out) = LinesOf(FirstTwenty(coverage_data))
        /\ Len(RecordLines(out)) <= 20
        /\ Len(coverage_data) < 20 => Len(RecordLines(out)) = Len(coverage_data)

\* a no-filter run over more than 20 records has printed 20
C7_Witness ==
    /\ pc = "done"
    /\ ~filter_pattern.some
    /\ Len(coverage_data) > 20
    /\ Len(RecordLines(out)) = 20

\* C8: a run without --filter prints what a run with no arguments prints for
\* the same report, with --uncovered or without it.
C8_UncoveredAloneChangesNothing ==
    (pc = "done" /\ ~ArgGiven(FilterFlag)) => out = MainNoArgs(lcov_file)

\* a run with --uncovered and no --filter over records with uncovered lines
C8_Witness ==
    /\ pc = "done"
    /\ ~ArgGiven(FilterFlag)
    /\ ArgGiven(UncoveredFlag)
    /\ show_uncovered
    /\ Len(RecordLines(out)) >= 2
    /\ \E k \in 1..Len(coverage_data) :
          coverage_data[k].len = 5 /\ coverage_data[k].uncovered /= <<>>

\* the uncovered-lines line at position k of the output is that of block b
UncoveredLineOf(k, block) ==
    /\ k > 1
    /\ out[k - 1].kind = "record"
    /\ Reported(block)
    /\ IsSuffix(out[k - 1].text, RawPath(block))
    /\ out[k - 1].lf = BlockLF(block)
    /\ out[k - 1].lh = BlockLH(block)
    /\ IF ZeroHitLines(block) = {}
       THEN out[k].text = <<"none">>
       ELSE /\ RangeListOk(out[k].text)
            /\ Expanded(out[k].text) = ZeroHitLines(block)
            /\ LET pieces == SplitList(out[k].text) IN
               /\ \A j \in 1..Len(pieces) : PieceLo(pieces[j]) <= PieceHi(pieces[j])
               /\ \A j \in 1..(Len(pieces) - 1) :
                     PieceHi(pieces[j]) < PieceLo(pieces[j + 1])

\* C10: with --filter and --uncovered every record line is followed by its
\* uncovered-lines line, which is "none" for a block without a DA:L,0 entry
\* and otherwise covers exactly the lines L with a DA:L,0 entry, each by one
\* token, the tokens ascending and not overlapping, whatever the order of
\* the DA entries and also with several DA entries for a line.
C10_UncoveredRangesExact ==
    (pc = "done" /\ filter_pattern.some /\ filter_pattern.val /= <<>>
        /\ show_uncovered) =>
        /\ \A k \in 1..Len(out) :
              out[k].kind = "record" =>
                  k < Len(out) /\ out[k + 1].kind = "uncovered"
        /\ \A k \in 1..Len(out) :
              out[k].kind = "uncovered" =>
                  \E b \in 1..Len(lcov_file) : UncoveredLineOf(k, lcov_file[b])

\* the lines of a block with more than one DA:L,0 entry
RepeatedZeroHit(block) ==
    \E j, k \in 1..Len(block) :
        /\ j < k
        /\ block[j].tag = "DA" /\ block[j].m = 0
        /\ block[k].tag = "DA" /\ block[k].m = 0
        /\ block[j].n = block[k].n

\* C10 holds of the reports in which no block repeats a DA:L,0 entry
C10_WithoutRepeatedEntries ==
    (\A b \in 1..Len(lcov_file) : ~RepeatedZeroHit(lcov_file[b]))
        => C10_UncoveredRangesExact

-----------------------------------------------------------------------------
(* Properties of format_line_ranges *)

ExampleSet == {1, 2, 3, 5, 7, 8, 9, 12}

ExampleText ==
    <<"1", "-", "3", ",", " ", "5", ",", " ", "7", "-", "9", ",", " ", "1", "2">>

\* C9: for a non-empty list of distinct line numbers S, format_line_ranges
\* returns tokens in strictly ascending order, each a maximal run of
\* consecutive numbers of S, written n for a run of one and start-end with
\* start < end otherwise; read back, the tokens give exactly S; and
\* {1,2,3,5,7,8,9,12} gives "1-3, 5, 7-9, 12".
C9_RangesRoundTrip ==
    (pc = "returned" /\ line_numbers /= <<>>) =>
        LET text == out[1].text
            S == Elements(line_numbers) IN
        /\ RangeListOk(text)
        /\ MaximalRuns(text, S)
        /\ Expanded(text) = S
        /\ S = ExampleSet => text = ExampleText

\* the example, given in descending order, has been formatted
C9_Witness ==
    /\ pc = "returned"
    /\ line_numbers = <<12, 9, 8, 7, 5, 3, 2, 1>>
    /\ out[1].text = ExampleText

=============================================================================
